---- MODULE Spec2Model ----
(***************************************************************************)
(* Synergia event booking API: the in-memory server (arrays `events` and   *)
(* `bookings`, counters nextEventId / nextBookingId) and the MongoDB       *)
(* server (collections 'event' and 'booking', async request handlers).     *)
(* A deployment runs one of the two; `variant` says which.                 *)
(***************************************************************************)
EXTENDS Integers, Sequences, FiniteSets, Bags, TLC

VARIABLES
  variant,        \* "mem": array-backed server, "db": MongoDB-backed server
  events,         \* mem: the `events` array
  bookings,       \* mem: the `bookings` array
  nextEventId,    \* mem: id counter for events
  nextBookingId,  \* mem: id counter for bookings
  eventColl,      \* db: documents of collection 'event' (_id = position)
  bookingColl,    \* db: documents of collection 'booking'
  reqs,           \* db: the POST /api/bookings requests in flight
  res             \* the last HTTP response sent

vars == <<variant, events, bookings, nextEventId, nextBookingId,
          eventColl, bookingColl, reqs, res>>
memVars == <<events, bookings, nextEventId, nextBookingId>>
dbVars == <<eventColl, bookingColl, reqs>>

-----------------------------------------------------------------------------
(* Bounds of the model *)

\* ids handed out by the in-memory counters stay <= these
MaxEventId == 3
MaxBookingId == 3
\* documents in collection 'event', and POST /api/bookings requests in flight
MaxDocs == 1
MaxReqs == 2

-----------------------------------------------------------------------------
(* JavaScript values of a JSON request body *)

Undef == [t |-> "undefined", v |-> 0]
Num(n) == [t |-> "number", v |-> n]
Str(n) == [t |-> "string", v |-> n]     \* the decimal string of n, e.g. "0"

\* !x is false exactly for truthy x: a non-zero number or a non-empty string
Truthy(x) == (x.t = "number" /\ x.v # 0) \/ x.t = "string"
\* parseInt of a number or of its decimal string
ParseInt(x) == x.v
\* strings: "" stands for a missing (undefined) or empty field, both falsy
TruthyStr(s) == s # ""

\* request inputs
MaxParticipantsInputs == {Undef, Num(0), Str(0), Num(1), Num(2)}
Emails == {"john.doe@example.com", "a@x.org", "A@x.org"}
StatusInputs == {"", "active", "cancelled", "completed", "archived"}
DocIdInputs == {1, 9}
\* PUT /event/:id bodies: one field set, or two; currentParticipants is a field
\* a client may send although no handler reads it
Patch(m, s, c) == [maxParticipants |-> m, status |-> s, currentParticipants |-> c]
EventPatches ==
  {Patch(m, "", Undef) : m \in MaxParticipantsInputs}
  \cup {Patch(Undef, s, Undef) : s \in StatusInputs}
  \cup {Patch(Num(2), "cancelled", Undef), Patch(Num(0), "active", Undef),
        Patch(Undef, "", Num(0))}
\* the same for the array server, whose handler reads maxParticipants only
MemEventPatches ==
  {Patch(m, "", Undef) : m \in MaxParticipantsInputs}
  \cup {Patch(Undef, "cancelled", Undef), Patch(Undef, "", Num(0))}
EventIdInputs == {1, 3, 9}
BookingIdInputs == {1, 3, 9}
Body(e, n, m, p) == [eventId |-> e, participantName |-> n, email |-> m, phone |-> p]
DbBookingBodies ==
  {Body(e, "P", m, "1") : e \in DocIdInputs, m \in Emails}
  \cup {Body(0, "P", "a@x.org", "1"), Body(1, "", "a@x.org", "1"),
        Body(1, "P", "", "1"), Body(1, "P", "a@x.org", "")}
BookingBodies ==
  {Body(e, "P", m, "1") : e \in EventIdInputs, m \in Emails}
  \cup {Body(0, "P", "a@x.org", "1"), Body(1, "", "a@x.org", "1"),
        Body(1, "P", "", "1"), Body(1, "P", "a@x.org", "")}

Response(op, status, message) == [op |-> op, status |-> status, message |-> message]

Min(S) == CHOOSE x \in S : \A y \in S : x <= y

-----------------------------------------------------------------------------
(* The in-memory server *)

SeedEvents ==
  << [id |-> 1, maxParticipants |-> 50, currentParticipants |-> 25],
     [id |-> 2, maxParticipants |-> 30, currentParticipants |-> 15] >>

SeedBookings ==
  << [id |-> 1, eventId |-> 1, email |-> "john.doe@example.com", status |-> "confirmed"],
     [id |-> 2, eventId |-> 2, email |-> "jane.smith@example.com", status |-> "confirmed"] >>

\* Array.prototype.findIndex, 1-based; 0 when nothing matches
findEventById(id) ==
  LET S == {i \in 1..Len(events) : events[i].id = id}
  IN  IF S = {} THEN 0 ELSE Min(S)

\* findIndex whose -1 is not tested: splice(-1, 1) takes the last element
findBookingByIdOrLast(id) ==
  LET S == {i \in 1..Len(bookings) : bookings[i].id = id}
  IN  IF S = {} THEN Len(bookings) ELSE Min(S)

findBookingById(id) ==
  LET S == {i \in 1..Len(bookings) : bookings[i].id = id}
  IN  IF S = {} THEN 0 ELSE Min(S)

\* Array.prototype.splice(i, 1)
RemoveAt(s, i) == [j \in 1..(Len(s) - 1) |-> IF j < i THEN s[j] ELSE s[j + 1]]

\* what a handler leaves behind: the arrays, the counters and the response
MemOut(ev, bk, ne, nb, r) ==
  [events |-> ev, bookings |-> bk, nextEventId |-> ne, nextBookingId |-> nb, res |-> r]
MemSame(r) == MemOut(events, bookings, nextEventId, nextBookingId, r)

\* event.status as JavaScript reads it: the event objects of this server are
\* built without a status property, and reading a missing property is undefined
StatusOf(event) == IF "status" \in DOMAIN event THEN event.status ELSE "undefined"

\* POST /events/add
MissingEventFields(body) == ~Truthy(body.maxParticipants)

NewEvent(id, maxParticipants) ==
  [id |-> id, maxParticipants |-> maxParticipants, currentParticipants |-> 0]

\* the id taken from the length of the array instead of the counter
PostEventIdFromLength(body) ==
  IF MissingEventFields(body)
  THEN MemSame(Response("createEvent", 400, "All fields are required"))
  ELSE MemOut(Append(events, NewEvent(Len(events) + 1, ParseInt(body.maxParticipants))),
              bookings, nextEventId + 1, nextBookingId,
              Response("createEvent", 201, "Event created successfully"))

PostEvent(body) ==
  IF MissingEventFields(body)
  THEN MemSame(Response("createEvent", 400, "All fields are required"))
  ELSE MemOut(Append(events, NewEvent(nextEventId, ParseInt(body.maxParticipants))),
              bookings, nextEventId + 1, nextBookingId,
              Response("createEvent", 201, "Event created successfully"))

\* PUT /event/:id
\* the update written as a replacement of the event: the counter restarts at 0
PutEventReplacing(id, body) ==
  LET i == findEventById(id)
  IN  IF i = 0
      THEN MemSame(Response("updateEvent", 404, "Event not found"))
      ELSE MemOut([events EXCEPT ![i] =
                     NewEvent(id, IF Truthy(body.maxParticipants)
                                  THEN ParseInt(body.maxParticipants)
                                  ELSE @.maxParticipants)],
                  bookings, nextEventId, nextBookingId,
                  Response("updateEvent", 200, "Event updated successfully"))

PutEvent(id, body) ==
  LET i == findEventById(id)
  IN  IF i = 0
      THEN MemSame(Response("updateEvent", 404, "Event not found"))
      ELSE MemOut([events EXCEPT ![i].maxParticipants =
                     IF Truthy(body.maxParticipants)
                     THEN ParseInt(body.maxParticipants) ELSE @],
                  bookings, nextEventId, nextBookingId,
                  Response("updateEvent", 200, "Event updated successfully"))

\* DELETE /event/:id
\* the event removed without the filter of its bookings
DeleteEventNoCascade(id) ==
  LET i == findEventById(id)
  IN  IF i = 0
      THEN MemSame(Response("cancelEvent", 404, "Event not found"))
      ELSE MemOut(RemoveAt(events, i), bookings, nextEventId, nextBookingId,
                  Response("cancelEvent", 200,
                           "Event and associated bookings cancelled successfully"))

DeleteEvent(id) ==
  LET i == findEventById(id)
  IN  IF i = 0
      THEN MemSame(Response("cancelEvent", 404, "Event not found"))
      ELSE MemOut(RemoveAt(events, i),
                  SelectSeq(bookings, LAMBDA b : b.eventId # id),
                  nextEventId, nextBookingId,
                  Response("cancelEvent", 200,
                           "Event and associated bookings cancelled successfully"))

\* POST /api/bookings
\* the validation without its test of phone
MissingBookingFieldsNoPhone(body) ==
  \/ body.eventId = 0
  \/ ~TruthyStr(body.participantName)
  \/ ~TruthyStr(body.email)

MissingBookingFields(body) ==
  \/ body.eventId = 0
  \/ ~TruthyStr(body.participantName)
  \/ ~TruthyStr(body.email)
  \/ ~TruthyStr(body.phone)

\* the capacity test written with > instead of >=
IsFullOffByOne(event) == event.currentParticipants > event.maxParticipants

IsFull(event) == event.currentParticipants >= event.maxParticipants

\* the duplicate scan left out
existingBookingSkipped(body) == FALSE

existingBooking(body) ==
  \E j \in 1..Len(bookings) :
    bookings[j].eventId = body.eventId /\ bookings[j].email = body.email

\* the booking pushed without the increment of the event's counter
PostBookingNoIncrement(body) ==
  IF MissingBookingFields(body)
  THEN MemSame(Response("createBooking", 400,
                        "Event ID, participant name, email, and phone are required"))
  ELSE LET i == findEventById(body.eventId)
       IN  IF i = 0
           THEN MemSame(Response("createBooking", 404, "Event not found"))
           ELSE IF IsFull(events[i])
           THEN MemSame(Response("createBooking", 400, "Event is fully booked"))
           ELSE IF existingBooking(body)
           THEN MemSame(Response("createBooking", 400,
                                 "Email is already registered for this event"))
           ELSE MemOut(events,
                       Append(bookings, [id |-> nextBookingId,
                                         eventId |-> body.eventId,
                                         email |-> body.email,
                                         status |-> "confirmed"]),
                       nextEventId, nextBookingId + 1,
                       Response("createBooking", 201, "Booking created successfully"))

PostBooking(body) ==
  IF MissingBookingFields(body)
  THEN MemSame(Response("createBooking", 400,
                        "Event ID, participant name, email, and phone are required"))
  ELSE LET i == findEventById(body.eventId)
       IN  IF i = 0
           THEN MemSame(Response("createBooking", 404, "Event not found"))
           ELSE IF IsFull(events[i])
           THEN MemSame(Response("createBooking", 400, "Event is fully booked"))
           ELSE IF existingBooking(body)
           THEN MemSame(Response("createBooking", 400,
                                 "Email is already registered for this event"))
           ELSE MemOut([events EXCEPT ![i].currentParticipants = @ + 1],
                       Append(bookings, [id |-> nextBookingId,
                                         eventId |-> body.eventId,
                                         email |-> body.email,
                                         status |-> "confirmed"]),
                       nextEventId, nextBookingId + 1,
                       Response("createBooking", 201, "Booking created successfully"))

\* PUT /api/bookings/:id
\* the booking rebuilt from the request: its status falls back to 'waiting'
PutBookingRebuilt(id, email) ==
  LET j == findBookingById(id)
  IN  IF j = 0
      THEN MemSame(Response("updateBooking", 404, "Booking not found"))
      ELSE MemOut(events,
                  [bookings EXCEPT ![j] =
                     [id |-> @.id, eventId |-> @.eventId,
                      email |-> IF TruthyStr(email) THEN email ELSE @.email,
                      status |-> "waiting"]],
                  nextEventId, nextBookingId,
                  Response("updateBooking", 200, "Booking updated successfully"))

PutBooking(id, email) ==
  LET j == findBookingById(id)
  IN  IF j = 0
      THEN MemSame(Response("updateBooking", 404, "Booking not found"))
      ELSE MemOut(events,
                  [bookings EXCEPT ![j].email = IF TruthyStr(email) THEN email ELSE @],
                  nextEventId, nextBookingId,
                  Response("updateBooking", 200, "Booking updated successfully"))

\* DELETE /api/bookings/:id
\* the counter left alone on cancellation
DecrementSkipped(event) == event

Decrement(event) ==
  IF event.currentParticipants > 0
  THEN [event EXCEPT !.currentParticipants = @ - 1]
  ELSE event

\* the booking kept in the array and marked cancelled instead of spliced out
DeleteBookingKeep(id) ==
  LET j == findBookingById(id)
  IN  IF j = 0
      THEN MemSame(Response("cancelBooking", 404, "Booking not found"))
      ELSE LET i == findEventById(bookings[j].eventId)
           IN  MemOut(IF i # 0 THEN [events EXCEPT ![i] = Decrement(@)] ELSE events,
                      [bookings EXCEPT ![j].status = "cancelled"],
                      nextEventId, nextBookingId,
                      Response("cancelBooking", 200, "Booking cancelled successfully"))

DeleteBooking(id) ==
  LET j == findBookingById(id)
  IN  IF j = 0
      THEN MemSame(Response("cancelBooking", 404, "Booking not found"))
      ELSE LET i == findEventById(bookings[j].eventId)
           IN  MemOut(IF i # 0 THEN [events EXCEPT ![i] = Decrement(@)] ELSE events,
                      RemoveAt(bookings, j),
                      nextEventId, nextBookingId,
                      Response("cancelBooking", 200, "Booking cancelled successfully"))

\* GET /events: data: events, the whole array (here: the ids of its events)
Listing(data) ==
  [op |-> "listActiveEvents", status |-> 200, message |-> "", data |-> data]
GetEvents == MemSame(Listing({events[i].id : i \in 1..Len(events)}))

\* a handler runs to completion: the whole outcome is one step
MemStep(o) ==
  /\ variant = "mem"
  /\ res' = o.res
  /\ events' = o.events
  /\ bookings' = o.bookings
  /\ nextEventId' = o.nextEventId
  /\ nextBookingId' = o.nextBookingId
  /\ o.nextEventId <= MaxEventId + 1
  /\ o.nextBookingId <= MaxBookingId + 1
  /\ UNCHANGED <<variant, eventColl, bookingColl, reqs>>

MemCreateEvent == \E m \in MaxParticipantsInputs : MemStep(PostEvent([maxParticipants |-> m]))
MemUpdateEvent ==
  \E id \in EventIdInputs, body \in MemEventPatches : MemStep(PutEvent(id, body))
MemCancelEventOf(id) == MemStep(DeleteEvent(id))
MemCancelEvent == \E id \in EventIdInputs : MemCancelEventOf(id)
MemCreateBookingOf(body) == MemStep(PostBooking(body))
MemCreateBooking == \E body \in BookingBodies : MemCreateBookingOf(body)
MemUpdateBooking == \E id \in BookingIdInputs, m \in Emails \cup {""} : MemStep(PutBooking(id, m))
MemListEvents == MemStep(GetEvents)
MemCancelBookingOf(id) == MemStep(DeleteBooking(id))
MemCancelBooking == \E id \in BookingIdInputs : MemCancelBookingOf(id)

-----------------------------------------------------------------------------
(* The MongoDB server *)

\* Booking.email has lowercase: true (and trim)
Lower(s) == IF s = "A@x.org" THEN "a@x.org" ELSE s

StatusEnum == {"active", "cancelled", "completed"}

\* Event.findById
FindById(id) == IF id \in 1..Len(eventColl) THEN id ELSE 0

\* schema validators of Event on the paths a write sets
ValidMaxParticipants(n) == n >= 1
ValidStatus(s) == s \in StatusEnum

\* what a one-step handler leaves behind: the collection 'event' and the response
DbOut(ec, r) == [eventColl |-> ec, res |-> r]
DbSame(r) == DbOut(eventColl, r)

\* new Event({...}): currentParticipants and status take the schema defaults
NewEventDoc(maxParticipants) ==
  [maxParticipants |-> maxParticipants, currentParticipants |-> 0, status |-> "active"]

\* POST /events/add
DbPostEvent(body) ==
  IF MissingEventFields(body)
  THEN DbSame(Response("createEvent", 400, "All fields are required"))
  ELSE IF ~ValidMaxParticipants(ParseInt(body.maxParticipants))
  THEN DbSame(Response("createEvent", 500, "Error creating event"))
  ELSE DbOut(Append(eventColl, NewEventDoc(ParseInt(body.maxParticipants))),
             Response("createEvent", 201, "Event created successfully"))

\* PUT /event/:id: findByIdAndUpdate with runValidators; undefined fields are not set
\* the update given the whole req.body: currentParticipants is set too
DbPutEventWholeBody(id, body) ==
  LET i == FindById(id)
      setMax == body.maxParticipants.t # "undefined"
      setStatus == body.status # ""
      setCurrent == body.currentParticipants.t # "undefined"
  IN  IF (setMax /\ ~ValidMaxParticipants(ParseInt(body.maxParticipants)))
         \/ (setStatus /\ ~ValidStatus(body.status))
      THEN DbSame(Response("updateEvent", 500, "Error updating event"))
      ELSE IF i = 0
      THEN DbSame(Response("updateEvent", 404, "Event not found"))
      ELSE DbOut([eventColl EXCEPT
                    ![i].maxParticipants =
                       IF setMax THEN ParseInt(body.maxParticipants) ELSE @,
                    ![i].status = IF setStatus THEN body.status ELSE @,
                    ![i].currentParticipants =
                       IF setCurrent THEN ParseInt(body.currentParticipants) ELSE @],
                 Response("updateEvent", 200, "Event updated successfully"))

DbPutEvent(id, body) ==
  LET i == FindById(id)
      setMax == body.maxParticipants.t # "undefined"
      setStatus == body.status # ""
  IN  IF (setMax /\ ~ValidMaxParticipants(ParseInt(body.maxParticipants)))
         \/ (setStatus /\ ~ValidStatus(body.status))
      THEN DbSame(Response("updateEvent", 500, "Error updating event"))
      ELSE IF i = 0
      THEN DbSame(Response("updateEvent", 404, "Event not found"))
      ELSE DbOut([eventColl EXCEPT
                    ![i].maxParticipants =
                       IF setMax THEN ParseInt(body.maxParticipants) ELSE @,
                    ![i].status = IF setStatus THEN body.status ELSE @],
                 Response("updateEvent", 200, "Event updated successfully"))

\* DELETE /event/:id: findByIdAndUpdate(id, { status: 'cancelled' })
DbDeleteEvent(id) ==
  LET i == FindById(id)
  IN  IF i = 0
      THEN DbSame(Response("cancelEvent", 404, "Event not found"))
      ELSE DbOut([eventColl EXCEPT ![i].status = "cancelled"],
                 Response("cancelEvent", 200, "Event cancelled successfully"))

\* GET /events
\* the query without its filter
FindAll == {i \in 1..Len(eventColl) : TRUE}

\* Event.find({ status: 'active' }) (here: the _ids of the documents found)
FindActive == {i \in 1..Len(eventColl) : eventColl[i].status = "active"}

DbGetEvents == DbSame(Listing(FindActive))

DbStep(o) ==
  /\ variant = "db"
  /\ res' = o.res
  /\ eventColl' = o.eventColl
  /\ Len(o.eventColl) <= MaxDocs
  /\ UNCHANGED <<variant, events, bookings, nextEventId, nextBookingId, bookingColl, reqs>>

DbCreateEvent == \E m \in MaxParticipantsInputs : DbStep(DbPostEvent([maxParticipants |-> m]))
DbUpdateEvent ==
  \E id \in DocIdInputs, body \in EventPatches : DbStep(DbPutEvent(id, body))
DbListEvents == DbStep(DbGetEvents)
DbCancelEventOf(id) == DbStep(DbDeleteEvent(id))
DbCancelEvent == \E id \in DocIdInputs : DbCancelEventOf(id)

\* POST /api/bookings is async: it awaits Event.findById, newBooking.save() and
\* event.save(); other requests run between the awaits.

\* new Booking({...}): the email setter lowercases on construction
NewBooking(body) ==
  [eventId |-> body.eventId, email |-> Lower(body.email), status |-> "confirmed"]

\* from the request's arrival to the call of newBooking.save(), with the read of
\* Event.findById in between: a response, or the handler suspended on the save
\* holding the event document it read
DbBookingFind(body) ==
  IF MissingBookingFields(body)
  THEN Response("createBooking", 400,
                "Event ID, participant name, email, and phone are required")
  ELSE LET i == FindById(body.eventId)
       IN  IF i = 0
           THEN Response("createBooking", 404, "Event not found")
           ELSE IF eventColl[i].status # "active"
           THEN Response("createBooking", 400, "Event is not active for bookings")
           ELSE IF IsFull(eventColl[i])
           THEN Response("createBooking", 400, "Event is fully booked")
           ELSE [pc |-> "saveBooking", newBooking |-> NewBooking(body),
                 event |-> eventColl[i]]

Suspended(o) == "pc" \in DOMAIN o

DbFindByIdOf(body) ==
  /\ variant = "db"
  /\ UNCHANGED <<variant, events, bookings, nextEventId, nextBookingId,
                 eventColl, bookingColl>>
  /\ BagCardinality(reqs) < MaxReqs
  /\ LET o == DbBookingFind(body)
     IN  IF Suspended(o)
         THEN UNCHANGED res /\ reqs' = reqs (+) SetToBag({o})
         ELSE res' = o /\ UNCHANGED reqs

DbFindById == \E body \in DbBookingBodies : DbFindByIdOf(body)

\* the unique index { eventId: 1, email: 1 } of collection 'booking'
\* the collection without its unique index
DuplicateKeyNoIndex(doc) == FALSE

DuplicateKey(doc) ==
  \E b \in bookingColl : b.eventId = doc.eventId /\ b.email = doc.email

\* await newBooking.save(): the insert, or E11000 caught as a 400
DbSaveBooking(r) ==
  /\ variant = "db"
  /\ r.pc = "saveBooking"
  /\ IF DuplicateKey(r.newBooking)
     THEN /\ reqs' = reqs (-) SetToBag({r})
          /\ res' = Response("createBooking", 400,
                             "Email is already registered for this event")
          /\ UNCHANGED bookingColl
     ELSE /\ bookingColl' = bookingColl \cup {r.newBooking}
          /\ reqs' = (reqs (-) SetToBag({r})) (+) SetToBag({[r EXCEPT !.pc = "saveEvent"]})
          /\ UNCHANGED res
  /\ UNCHANGED <<variant, events, bookings, nextEventId, nextBookingId, eventColl>>

\* event.currentParticipants += 1 on the document read earlier
Increment(event) == [event EXCEPT !.currentParticipants = @ + 1]

\* await event.save(): writes the modified path currentParticipants, then 201
DbSaveEvent(r) ==
  /\ variant = "db"
  /\ r.pc = "saveEvent"
  /\ eventColl' = [eventColl EXCEPT ![r.newBooking.eventId].currentParticipants =
                     Increment(r.event).currentParticipants]
  /\ reqs' = reqs (-) SetToBag({r})
  /\ res' = Response("createBooking", 201, "Booking created successfully")
  /\ UNCHANGED <<variant, events, bookings, nextEventId, nextBookingId, bookingColl>>

DbBookingSaved == \E r \in BagToSet(reqs) : DbSaveBooking(r)
DbEventSaved == \E r \in BagToSet(reqs) : DbSaveEvent(r)

\* DELETE /api/bookings/:id (like GET and PUT /api/bookings/:id) matches no route
\* of this server: the request falls through to the 404 handler
EndpointNotFound ==
  Response("cancelBooking", 404,
           "Endpoint not found. Please check the API documentation at /")
DbNoRoute == DbSame(EndpointNotFound)
DbCancelBooking == DbStep(DbNoRoute)

-----------------------------------------------------------------------------

NoResponse == Response("none", 0, "")

Init ==
  /\ variant \in {"mem", "db"}
  /\ events = SeedEvents
  /\ bookings = SeedBookings
  /\ nextEventId = 3
  /\ nextBookingId = 3
  /\ eventColl = << >>
  /\ bookingColl = {}
  /\ reqs = EmptyBag
  /\ res = NoResponse

Next ==
  \/ MemCreateEvent
  \/ MemUpdateEvent
  \/ MemCancelEvent
  \/ MemCreateBooking
  \/ MemUpdateBooking
  \/ MemCancelBooking
  \/ DbCreateEvent
  \/ DbUpdateEvent
  \/ DbCancelEvent
  \/ DbFindById
  \/ DbBookingSaved
  \/ DbEventSaved
  \/ DbCancelBooking
  \/ MemListEvents
  \/ DbListEvents

Spec == Init /\ [][Next]_vars

\* Bookings only: events as POST /events/add leaves them (maxParticipants >= 1 sent),
\* then nothing but POST /api/bookings and DELETE /api/bookings/:id requests.
InitBookings ==
  /\ variant \in {"mem", "db"}
  /\ bookings = SeedBookings
  /\ nextBookingId = 3
  /\ bookingColl = {}
  /\ reqs = EmptyBag
  /\ res = NoResponse
  /\ IF variant = "mem"
     THEN /\ events \in {SeedEvents}
                        \cup {Append(SeedEvents, NewEvent(3, m)) : m \in {1, 2}}
          /\ nextEventId = Len(events) + 1
          /\ eventColl = << >>
     ELSE /\ events = SeedEvents
          /\ nextEventId = 3
          /\ eventColl \in {<<NewEventDoc(m)>> : m \in {1, 2}}

NextBookings ==
  \/ MemCreateBooking
  \/ MemCancelBooking
  \/ DbFindById
  \/ DbBookingSaved
  \/ DbEventSaved

SpecBookings == InitBookings /\ [][NextBookings]_vars

-----------------------------------------------------------------------------
(* Properties *)

WithinCapacity(event) ==
  0 <= event.currentParticipants /\ event.currentParticipants <= event.maxParticipants

BookingsOfDoc(i) == {b \in bookingColl : b.eventId = i}
BookingsOfEvent(id) == {j \in 1..Len(bookings) : bookings[j].eventId = id}

\* C1: in both servers, 0 <= currentParticipants <= maxParticipants for every
\* event in every state reached by POST /api/bookings and DELETE
\* /api/bookings/:id requests alone (checked under SpecBookings).
C1_CapacityUnderBookings ==
  /\ \A i \in 1..Len(events) : WithinCapacity(events[i])
  /\ \A i \in 1..Len(eventColl) : WithinCapacity(eventColl[i])

\* C1 witness: a booking request was turned away from an event that bookings
\* filled to its maximum.
C1_Witness ==
  /\ res.message = "Event is fully booked"
  /\ \/ \E i \in 1..Len(events) :
          /\ events[i].currentParticipants = events[i].maxParticipants
          /\ BookingsOfEvent(events[i].id) # {}
     \/ \E i \in 1..Len(eventColl) :
          /\ eventColl[i].currentParticipants = eventColl[i].maxParticipants
          /\ BookingsOfDoc(i) # {}

\* C2: MongoDB server, concurrent createBooking requests with distinct emails on
\* an event with one slot left never both succeed: the bookings persisted for an
\* event never outnumber its maxParticipants (checked under SpecBookings, where
\* every event starts empty and only createBooking writes).
C2_NeverBothSucceed ==
  variant = "db" =>
    \A i \in 1..Len(eventColl) :
      Cardinality(BookingsOfDoc(i)) <= eventColl[i].maxParticipants

\* C3: no two confirmed bookings share the same (eventId, email).
C3_NoDuplicateConfirmed ==
  /\ \A j, k \in 1..Len(bookings) :
       (/\ j # k
        /\ bookings[j].status = "confirmed"
        /\ bookings[k].status = "confirmed"
        /\ bookings[j].eventId = bookings[k].eventId)
       => bookings[j].email # bookings[k].email
  /\ \A b, c \in bookingColl :
       (/\ b.status = "confirmed" /\ c.status = "confirmed"
        /\ b.eventId = c.eventId /\ b.email = c.email)
       => b = c

FullyBooked == Response("createBooking", 400, "Event is fully booked")
NotActive == Response("createBooking", 400, "Event is not active for bookings")

\* a valid request against a stored event whose counter equals its maximum
AtCapacityMem(body) ==
  /\ ~MissingBookingFields(body)
  /\ findEventById(body.eventId) # 0
  /\ events[findEventById(body.eventId)].currentParticipants
       = events[findEventById(body.eventId)].maxParticipants
AtCapacityDb(body) ==
  /\ ~MissingBookingFields(body)
  /\ FindById(body.eventId) # 0
  /\ eventColl[FindById(body.eventId)].currentParticipants
       = eventColl[FindById(body.eventId)].maxParticipants

\* (A step of the array server's createBooking handler answers with op
\* "createBooking"; the formulas below look at those steps only.)
\* C4 as stated: createBooking with all required fields against an existing
\* event with currentParticipants = maxParticipants always answers 400 'Event
\* is fully booked' and changes no booking, event or id counter.
C4_FullAlwaysCapacityError ==
  [][ IF variant = "mem"
      THEN res'.op = "createBooking" =>
             \A body \in BookingBodies :
               (AtCapacityMem(body) /\ MemCreateBookingOf(body))
               => (res' = FullyBooked /\ UNCHANGED memVars)
      ELSE \A body \in DbBookingBodies :
             (AtCapacityDb(body) /\ DbFindByIdOf(body))
             => (res' = FullyBooked /\ UNCHANGED dbVars)
    ]_vars

\* C4 amended: the same, for the MongoDB server only when the event's status is
\* 'active' (a full event that is not active answers 'Event is not active for
\* bookings' instead).
C4_FullActiveCapacityError ==
  [][ IF variant = "mem"
      THEN res'.op = "createBooking" =>
             \A body \in BookingBodies :
               (AtCapacityMem(body) /\ MemCreateBookingOf(body))
               => (res' = FullyBooked /\ UNCHANGED memVars)
      ELSE \A body \in DbBookingBodies :
             (/\ AtCapacityDb(body)
              /\ eventColl[FindById(body.eventId)].status = "active"
              /\ DbFindByIdOf(body))
             => (res' = FullyBooked /\ UNCHANGED dbVars)
    ]_vars

\* C4 witness: the MongoDB server has just turned a request away from an active
\* event that is exactly full.
C4_Witness ==
  /\ variant = "db"
  /\ res = FullyBooked
  /\ \E i \in 1..Len(eventColl) :
       /\ eventColl[i].status = "active"
       /\ eventColl[i].currentParticipants = eventColl[i].maxParticipants
       /\ Cardinality(BookingsOfDoc(i)) = eventColl[i].maxParticipants

\* currentParticipants minus stored bookings of the seeded events
SeedSurplus(id) == IF id = 1 THEN 24 ELSE IF id = 2 THEN 14 ELSE 0

\* C5: persisting a booking and incrementing its event's counter are one unit:
\* in no state is a booking stored without its increment, so the counter always
\* equals the bookings stored for the event (plus the seeded surplus).
C5_BookingAndCounterTogether ==
  /\ \A i \in 1..Len(eventColl) :
       eventColl[i].currentParticipants = Cardinality(BookingsOfDoc(i))
  /\ \A i \in 1..Len(events) :
       events[i].currentParticipants
         = Cardinality(BookingsOfEvent(events[i].id)) + SeedSurplus(events[i].id)

\* C6: a successful cancelBooking of a booking whose event is stored lowers that
\* event's counter by exactly 1 (or keeps it at 0), never below 0, and leaves
\* every other event's counter as it was.
C6_CancelDecrementsByOne ==
  [][ res'.op = "cancelBooking" =>
        \A id \in BookingIdInputs :
          LET j == findBookingById(id)
              i == IF j = 0 THEN 0 ELSE findEventById(bookings[j].eventId)
          IN  (j # 0 /\ i # 0 /\ MemCancelBookingOf(id))
              => /\ res'.status = 200
                 /\ Len(events') = Len(events)
                 /\ \A k \in 1..Len(events) :
                      /\ events'[k].id = events[k].id
                      /\ events'[k].currentParticipants >= 0
                      /\ events'[k].currentParticipants =
                           IF k # i THEN events[k].currentParticipants
                           ELSE IF events[k].currentParticipants > 0
                           THEN events[k].currentParticipants - 1
                           ELSE 0
    ]_vars

\* C6 witness: booking 1 was cancelled and event 1 went from 25 to 24 while
\* event 2 kept its 15.
C6_Witness ==
  /\ res = Response("cancelBooking", 200, "Booking cancelled successfully")
  /\ findBookingById(1) = 0
  /\ findEventById(1) # 0 /\ events[findEventById(1)].currentParticipants = 24
  /\ findEventById(2) # 0 /\ events[findEventById(2)].currentParticipants = 15

\* C7: in both servers cancelEvent on an existing event leaves the bookings as
\* they were, and createBooking against a cancelled event answers 400 'Event is
\* not active for bookings'. (In the array server a cancelled event is one whose
\* id was handed out and is no longer stored.)
C7_CancelEventKeepsBookings ==
  [][ /\ \A id \in EventIdInputs :
           (MemCancelEventOf(id) /\ findEventById(id) # 0) => bookings' = bookings
      /\ \A body \in BookingBodies :
           (/\ MemCreateBookingOf(body)
            /\ ~MissingBookingFields(body)
            /\ body.eventId < nextEventId
            /\ findEventById(body.eventId) = 0)
           => res' = NotActive
      /\ \A id \in DocIdInputs :
           (DbCancelEventOf(id) /\ FindById(id) # 0) => bookingColl' = bookingColl
      /\ \A body \in DbBookingBodies :
           (/\ DbFindByIdOf(body)
            /\ ~MissingBookingFields(body)
            /\ FindById(body.eventId) # 0
            /\ eventColl[FindById(body.eventId)].status = "cancelled")
           => (res' = NotActive /\ UNCHANGED dbVars)
    ]_vars

\* C8: Event.status is one-way: once 'cancelled' or 'completed' it never changes.
C8_StatusOneWay ==
  [][ \A i \in 1..Len(eventColl) :
        eventColl[i].status \in {"cancelled", "completed"}
        => eventColl'[i].status = eventColl[i].status
    ]_vars

\* C9: 0 <= currentParticipants <= maxParticipants for every event in every
\* reachable state under all operations, updateEvent included.
C9_CapacityAlways ==
  IF variant = "mem"
  THEN \A i \in 1..Len(events) : WithinCapacity(events[i])
  ELSE \A i \in 1..Len(eventColl) : WithinCapacity(eventColl[i])

\* the preconditions of createBooking in the stated order, on the array server
PreMem(body, k) ==
  LET i == findEventById(body.eventId)
  IN  CASE k = 1 -> body.eventId # 0 /\ body.participantName # ""
                    /\ body.email # "" /\ body.phone # ""
        [] k = 2 -> i # 0
        [] k = 3 -> TRUE     \* a stored event has no status: it takes bookings
        [] k = 4 -> i # 0 => events[i].currentParticipants < events[i].maxParticipants
        [] k = 5 -> ~\E j \in 1..Len(bookings) :
                       /\ bookings[j].status # "cancelled"
                       /\ bookings[j].eventId = body.eventId
                       /\ bookings[j].email = body.email

\* the same on the MongoDB server; the stored email is the lowercased one
PreDb(body, k) ==
  LET i == FindById(body.eventId)
  IN  CASE k = 1 -> body.eventId # 0 /\ body.participantName # ""
                    /\ body.email # "" /\ body.phone # ""
        [] k = 2 -> i # 0
        [] k = 3 -> i # 0 => eventColl[i].status = "active"
        [] k = 4 -> i # 0 => eventColl[i].currentParticipants < eventColl[i].maxParticipants
        [] k = 5 -> ~\E b \in bookingColl :
                       /\ b.status # "cancelled"
                       /\ b.eventId = body.eventId
                       /\ b.email = Lower(body.email)

FirstFailing(failing) == IF failing = {} THEN 0 ELSE Min(failing)

ErrorOf(k) ==
  CASE k = 1 -> Response("createBooking", 400,
                         "Event ID, participant name, email, and phone are required")
    [] k = 2 -> Response("createBooking", 404, "Event not found")
    [] k = 3 -> NotActive
    [] k = 4 -> FullyBooked
    [] k = 5 -> Response("createBooking", 400,
                         "Email is already registered for this event")

-----------------------------------------------------------------------------
(* Repeated and concurrent registrations *)

DuplicateRegistration ==
  Response("createBooking", 400, "Email is already registered for this event")

\* a valid request whose (eventId, email) is already stored for a stored event
AlreadyBookedMem(body) ==
  /\ ~MissingBookingFields(body)
  /\ \E i \in 1..Len(events) : events[i].id = body.eventId
  /\ \E j \in 1..Len(bookings) :
       bookings[j].eventId = body.eventId /\ bookings[j].email = body.email
AlreadyBookedDb(body) ==
  /\ ~MissingBookingFields(body)
  /\ body.eventId \in 1..Len(eventColl)
  /\ eventColl[body.eventId].status = "active"
  /\ \E b \in bookingColl : b.eventId = body.eventId /\ b.email = Lower(body.email)

\* C11 as stated: a createBooking repeating the (eventId, email) of a stored
\* booking is answered 400 'Email is already registered for this event' whatever
\* the event's capacity, and creates no booking and moves no counter. (MongoDB
\* server: the handler passes the read of the event and fails on the insert.)
C11_RepeatAlwaysDuplicate ==
  [][ IF variant = "mem"
      THEN res'.op = "createBooking" =>
             \A body \in BookingBodies :
               (AlreadyBookedMem(body) /\ MemCreateBookingOf(body))
               => (res' = DuplicateRegistration /\ UNCHANGED memVars)
      ELSE /\ \A body \in DbBookingBodies :
                (AlreadyBookedDb(body) /\ DbFindByIdOf(body))
                => (/\ BagCardinality(reqs') = BagCardinality(reqs) + 1
                    /\ UNCHANGED <<eventColl, bookingColl, res>>)
           /\ \A r \in BagToSet(reqs) :
                (/\ r.pc = "saveBooking"
                 /\ r.newBooking \in bookingColl
                 /\ DbSaveBooking(r))
                => (res' = DuplicateRegistration /\ UNCHANGED <<eventColl, bookingColl>>)
    ]_vars

\* C11 amended: the same when the event still has a free slot after the first
\* booking; when the first booking filled the event, the repeat is answered 400
\* 'Event is fully booked' (capacity is tested before the duplicate), and in
\* both cases nothing is stored and no counter moves.
C11_RepeatRejected ==
  [][ IF variant = "mem"
      THEN res'.op = "createBooking" =>
             \A body \in BookingBodies :
               (AlreadyBookedMem(body) /\ MemCreateBookingOf(body))
               => /\ UNCHANGED memVars
                  /\ res' = IF IsFull(events[findEventById(body.eventId)])
                            THEN FullyBooked ELSE DuplicateRegistration
      ELSE /\ \A body \in DbBookingBodies :
                (AlreadyBookedDb(body) /\ DbFindByIdOf(body))
                => IF IsFull(eventColl[body.eventId])
                   THEN res' = FullyBooked /\ UNCHANGED dbVars
                   ELSE /\ BagCardinality(reqs') = BagCardinality(reqs) + 1
                        /\ UNCHANGED <<eventColl, bookingColl, res>>
           /\ \A r \in BagToSet(reqs) :
                (/\ r.pc = "saveBooking"
                 /\ r.newBooking \in bookingColl
                 /\ DbSaveBooking(r))
                => (res' = DuplicateRegistration /\ UNCHANGED <<eventColl, bookingColl>>)
    ]_vars

\* C11 witness: MongoDB server, one booking stored and counted on an event with
\* two places, no request in flight, and the repeat was answered as a duplicate.
C11_Witness ==
  /\ variant = "db"
  /\ res = DuplicateRegistration
  /\ reqs = EmptyBag
  /\ Cardinality(bookingColl) = 1
  /\ Len(eventColl) = 1
  /\ eventColl[1].currentParticipants = 1
  /\ eventColl[1].maxParticipants = 2

\* requests in flight whose booking document has been inserted
Inserted == {r \in BagToSet(reqs) : r.pc = "saveEvent"}

\* C12: MongoDB server, concurrent createBooking requests with the same
\* (eventId, email): the unique index lets one insert through, so at most one
\* of them goes on to event.save() and its booking is the stored one; the
\* insert of a request whose key is already stored is answered 400 'Email is
\* already registered for this event', ends the request before event.save() and
\* changes neither collection.
C12_UniqueIndexOneWinner ==
  /\ [](variant = "db" =>
          \A r \in Inserted :
            /\ CopiesIn(r, reqs) = 1
            /\ r.newBooking \in bookingColl
            /\ \A q \in Inserted :
                 (q.newBooking.eventId = r.newBooking.eventId
                  /\ q.newBooking.email = r.newBooking.email) => q = r)
  /\ [][ variant = "db" =>
           \A r \in BagToSet(reqs) :
             (/\ r.pc = "saveBooking"
              /\ \E b \in bookingColl :
                   b.eventId = r.newBooking.eventId /\ b.email = r.newBooking.email
              /\ DbSaveBooking(r))
             => /\ res' = DuplicateRegistration
                /\ UNCHANGED <<eventColl, bookingColl>>
                /\ reqs' = reqs (-) SetToBag({r})
       ]_vars

\* C12 witness: the winner has inserted its booking and still waits for
\* event.save() (counter 0 on an event with two places) while the identical
\* request was answered as a duplicate.
C12_Witness ==
  /\ variant = "db"
  /\ res = DuplicateRegistration
  /\ Cardinality(bookingColl) = 1
  /\ Len(eventColl) = 1
  /\ eventColl[1].maxParticipants = 2
  /\ eventColl[1].currentParticipants = 0
  /\ \E r \in Inserted : r.newBooking \in bookingColl /\ BagCardinality(reqs) = 1

-----------------------------------------------------------------------------
(* Cancelling bookings *)

BookingNotFound == Response("cancelBooking", 404, "Booking not found")

\* booking id was handed out and is no longer in the array: cancelled before
\* (or dropped with its event)
AlreadyCancelled(id) ==
  /\ id < nextBookingId
  /\ \A j \in 1..Len(bookings) : bookings[j].id # id

\* C13: cancelBooking on a booking id that was cancelled before answers 404
\* 'Booking not found' and decrements nothing: events, bookings and id counters
\* are as the first call left them.
C13_SecondCancelNotFound ==
  [][ res'.op = "cancelBooking" =>
        \A id \in BookingIdInputs :
          (AlreadyCancelled(id) /\ MemCancelBookingOf(id))
          => (res' = BookingNotFound /\ UNCHANGED memVars)
    ]_vars

\* C13 witness: booking 1 was cancelled (event 1 went from 25 to 24) and the
\* second DELETE /api/bookings/1 was answered 404 with event 1 still at 24.
C13_Witness ==
  /\ variant = "mem"
  /\ res = BookingNotFound
  /\ AlreadyCancelled(1)
  /\ findEventById(1) # 0
  /\ events[findEventById(1)].currentParticipants = 24
  /\ events[findEventById(1)].maxParticipants = 50
  /\ Len(bookings) = 1

\* C14: after a successful cancelBooking(id) the booking is still stored, with
\* status 'cancelled'; a stored booking's status only ever moves from
\* 'confirmed' to 'cancelled', and no booking ever has status 'waiting'.
C14_CancelledBookingKept ==
  [][ /\ res'.op = "cancelBooking" =>
           \A id \in BookingIdInputs :
             (MemCancelBookingOf(id) /\ res'.status = 200)
             => \E j \in 1..Len(bookings') :
                  bookings'[j].id = id /\ bookings'[j].status = "cancelled"
      /\ \A j \in 1..Len(bookings), k \in 1..Len(bookings') :
           bookings'[k].id = bookings[j].id
           => \/ bookings'[k].status = bookings[j].status
              \/ bookings[j].status = "confirmed" /\ bookings'[k].status = "cancelled"
      /\ \A k \in 1..Len(bookings') : bookings'[k].status # "waiting"
      /\ \A b \in bookingColl' : b.status # "waiting"
    ]_vars

\* C15: MongoDB server, DELETE /api/bookings/:id for a stored confirmed booking
\* performs cancelBooking: the booking's status becomes 'cancelled' and the
\* owning event's currentParticipants goes down by 1 (not below 0).
C15_DbCancelBookingCancels ==
  [][ (DbCancelBooking /\ \E b \in bookingColl : b.status = "confirmed")
      => \E b \in bookingColl :
           /\ b.status = "confirmed"
           /\ bookingColl' = (bookingColl \ {b}) \cup {[b EXCEPT !.status = "cancelled"]}
           /\ eventColl' = [eventColl EXCEPT ![b.eventId] = Decrement(@)]
    ]_vars

-----------------------------------------------------------------------------
(* Events *)

\* C16: events are never hard-deleted: the number of stored events never goes
\* down, and after a successful cancelEvent(id) the event is still stored (get
\* event by id finds it) with status 'cancelled', in both servers.
C16_EventsNeverDeleted ==
  [][ /\ Len(events') >= Len(events)
      /\ Len(eventColl') >= Len(eventColl)
      /\ \A id \in EventIdInputs :
           (MemCancelEventOf(id) /\ res'.status = 200)
           => \E i \in 1..Len(events') :
                events'[i].id = id /\ StatusOf(events'[i]) = "cancelled"
      /\ \A id \in DocIdInputs :
           (DbCancelEventOf(id) /\ res'.status = 200)
           => (id \in 1..Len(eventColl') /\ eventColl'[id].status = "cancelled")
    ]_vars

\* C17: in both servers the event stored by a successful createEvent has
\* currentParticipants = 0 and status = 'active'.
C17_CreatedEventDefaults ==
  [][ /\ (MemCreateEvent /\ res'.status = 201)
         => /\ Len(events') = Len(events) + 1
            /\ events'[Len(events')].currentParticipants = 0
            /\ StatusOf(events'[Len(events')]) = "active"
      /\ (DbCreateEvent /\ res'.status = 201)
         => /\ Len(eventColl') = Len(eventColl) + 1
            /\ eventColl'[Len(eventColl')].currentParticipants = 0
            /\ eventColl'[Len(eventColl')].status = "active"
    ]_vars

\* maxParticipants of a request body that is not a positive integer
NotPositive(m) == m.t = "undefined" \/ m.v < 1

\* C18: createEvent with a maxParticipants that is missing or not a positive
\* integer is answered 400 and stores no event, so every event a createEvent
\* stores has maxParticipants >= 1.
C18_CreateEventValidates ==
  [][ /\ \A m \in MaxParticipantsInputs :
           (NotPositive(m) /\ MemStep(PostEvent([maxParticipants |-> m])))
           => (res'.status = 400 /\ UNCHANGED memVars)
      /\ \A m \in MaxParticipantsInputs :
           (NotPositive(m) /\ DbStep(DbPostEvent([maxParticipants |-> m])))
           => (res'.status = 400 /\ UNCHANGED dbVars)
      /\ (MemCreateEvent /\ res'.status = 201)
         => events'[Len(events')].maxParticipants >= 1
      /\ (DbCreateEvent /\ res'.status = 201)
         => eventColl'[Len(eventColl')].maxParticipants >= 1
    ]_vars

\* a field of a PUT /event/:id body counts as supplied when it is defined
Supplied(x) == x.t # "undefined"
SuppliedStr(s) == s # ""

CounterChangedMem ==
  \E i \in 1..Len(events), k \in 1..Len(events') :
    /\ events'[k].id = events[i].id
    /\ events'[k].currentParticipants # events[i].currentParticipants
CounterChangedDb ==
  \E i \in 1..Len(eventColl) :
    /\ i <= Len(eventColl')
    /\ eventColl'[i].currentParticipants # eventColl[i].currentParticipants

\* C20: the currentParticipants of a stored event changes only in createBooking
\* and cancelBooking steps; createEvent, updateEvent, cancelEvent and
\* updateBooking leave the counter of every event they keep as it was, whatever
\* the request body holds (a currentParticipants field included).
C20_CounterOnlyByBookings ==
  [][ /\ CounterChangedMem => (MemCreateBooking \/ MemCancelBooking)
      /\ CounterChangedDb => DbEventSaved
      /\ res'.op \in {"createEvent", "updateEvent", "cancelEvent", "updateBooking"}
         => ~CounterChangedMem
    ]_vars

\* C20 witness: the MongoDB server has marked an event 'completed' (only PUT
\* /event/:id can) whose counter stands at 1 for its one stored booking.
C20_Witness ==
  /\ variant = "db"
  /\ res = Response("updateEvent", 200, "Event updated successfully")
  /\ reqs = EmptyBag
  /\ Len(eventColl) = 1
  /\ eventColl[1].status = "completed"
  /\ eventColl[1].currentParticipants = 1
  /\ Cardinality(BookingsOfDoc(1)) = 1

-----------------------------------------------------------------------------
(* Unknown ids *)

UnknownEvent(id) == \A i \in 1..Len(events) : events[i].id # id
UnknownBooking(id) == \A j \in 1..Len(bookings) : bookings[j].id # id
UnknownDoc(id) == id \notin 1..Len(eventColl)

\* C21: updateEvent, cancelEvent and cancelBooking with an id that matches no
\* stored entity answer 404 and leave events, bookings and id counters
\* unchanged, in both servers.
C21_UnknownIdNotFound ==
  [][ /\ variant = "mem" =>
           /\ \A id \in EventIdInputs, body \in MemEventPatches :
                (UnknownEvent(id) /\ MemStep(PutEvent(id, body)))
                => (res'.status = 404 /\ UNCHANGED memVars)
           /\ \A id \in EventIdInputs :
                (UnknownEvent(id) /\ MemCancelEventOf(id))
                => (res'.status = 404 /\ UNCHANGED memVars)
           /\ \A id \in BookingIdInputs :
                (UnknownBooking(id) /\ MemCancelBookingOf(id))
                => (res'.status = 404 /\ UNCHANGED memVars)
      /\ variant = "db" =>
           /\ \A id \in DocIdInputs, body \in EventPatches :
                (UnknownDoc(id) /\ DbStep(DbPutEvent(id, body)))
                => (res'.status = 404 /\ UNCHANGED dbVars)
           /\ \A id \in DocIdInputs :
                (UnknownDoc(id) /\ DbCancelEventOf(id))
                => (res'.status = 404 /\ UNCHANGED dbVars)
           /\ DbCancelBooking => (res'.status = 404 /\ UNCHANGED dbVars)
    ]_vars

-----------------------------------------------------------------------------
(* Listing events *)

\* an event object of the array server has no status property; while it is
\* stored it takes bookings, so it counts as active
IsActiveMem(event) == StatusOf(event) \in {"active", "undefined"}

-----------------------------------------------------------------------------
(* Emails *)

Lowercase(s) == Lower(s) = s

\* C23: stored booking emails are lowercase, and a createBooking whose email
\* differs only in letter case from that of a booking stored for the same event
\* (the event active and not full) is rejected as a duplicate, in both servers.
C23_CaseInsensitiveDuplicate ==
  /\ [](/\ \A j \in 1..Len(bookings) : Lowercase(bookings[j].email)
        /\ \A b \in bookingColl : Lowercase(b.email))
  /\ [][ /\ res'.op = "createBooking" =>
              \A body \in BookingBodies :
                (/\ ~MissingBookingFields(body)
                 /\ ~UnknownEvent(body.eventId)
                 /\ ~IsFull(events[findEventById(body.eventId)])
                 /\ \E j \in 1..Len(bookings) :
                      /\ bookings[j].eventId = body.eventId
                      /\ Lower(bookings[j].email) = Lower(body.email)
                 /\ MemCreateBookingOf(body))
                => (res' = DuplicateRegistration /\ UNCHANGED memVars)
         /\ variant = "db" =>
              \A r \in BagToSet(reqs) :
                (/\ r.pc = "saveBooking"
                 /\ \E b \in bookingColl :
                      /\ b.eventId = r.newBooking.eventId
                      /\ Lower(b.email) = Lower(r.newBooking.email)
                 /\ DbSaveBooking(r))
                => (res' = DuplicateRegistration /\ UNCHANGED <<eventColl, bookingColl>>)
       ]_vars

-----------------------------------------------------------------------------
(* Requests racing on the MongoDB server *)

\* C24: MongoDB server, createBooking racing with cancelEvent: a booking is
\* inserted only while its event's status is 'active', and createBooking's
\* event.save() leaves the event's status as it is.
C24_NoBookingAfterCancel ==
  [][ variant = "db" =>
        \A r \in BagToSet(reqs) :
          /\ (DbSaveBooking(r) /\ bookingColl' # bookingColl)
             => eventColl[r.newBooking.eventId].status = "active"
          /\ DbSaveEvent(r)
             => eventColl'[r.newBooking.eventId].status
                  = eventColl[r.newBooking.eventId].status
    ]_vars

\* C25: MongoDB server, createBooking requests only (events start empty): once
\* every request has been answered, each event's stored currentParticipants
\* equals the number of bookings persisted for it, one increment per successful
\* createBooking (checked under SpecBookings).
C25_NoLostUpdate ==
  (variant = "db" /\ reqs = EmptyBag) =>
    \A i \in 1..Len(eventColl) :
      eventColl[i].currentParticipants = Cardinality(BookingsOfDoc(i))

-----------------------------------------------------------------------------
(* The array server: whole handlers, counters and references *)

\* C26: array server, every handler is one step. A createBooking with all
\* fields and a new (eventId, email) for a stored event takes a free slot
\* (answer 201, the counter up by 1, one booking more) or, the event being full,
\* is answered 'Event is fully booked' and changes nothing; so of two requests
\* with distinct emails for one remaining slot one succeeds and the other is
\* turned away, and an event created empty never has more bookings than
\* maxParticipants (checked under SpecBookings).
C26_WholeHandlersOneSlot ==
  /\ [](variant = "mem" =>
          \A i \in 1..Len(events) :
            SeedSurplus(events[i].id) = 0
            => Cardinality(BookingsOfEvent(events[i].id)) <= events[i].maxParticipants)
  /\ [][ res'.op = "createBooking" =>
           \A body \in BookingBodies :
             (/\ ~MissingBookingFields(body)
              /\ ~UnknownEvent(body.eventId)
              /\ ~\E j \in 1..Len(bookings) :
                    bookings[j].eventId = body.eventId /\ bookings[j].email = body.email
              /\ MemCreateBookingOf(body))
             => LET i == findEventById(body.eventId)
                IN  IF events[i].currentParticipants < events[i].maxParticipants
                    THEN /\ res'.status = 201
                         /\ Len(bookings') = Len(bookings) + 1
                         /\ events'[i].currentParticipants
                              = events[i].currentParticipants + 1
                    ELSE res' = FullyBooked /\ UNCHANGED memVars
       ]_vars

\* C26 witness: event 3 has one place, one booking took it, and the next
\* request for it was answered 'Event is fully booked'.
C26_Witness ==
  /\ variant = "mem"
  /\ res = FullyBooked
  /\ Len(events) = 3
  /\ events[3].maxParticipants = 1
  /\ events[3].currentParticipants = 1
  /\ Cardinality(BookingsOfEvent(3)) = 1

\* C27: array server, for every stored event currentParticipants minus the
\* number of stored bookings of the event is constant: 24 for seeded event 1,
\* 14 for seeded event 2, 0 for events created later. So the counter is never
\* below the number of stored bookings, and wherever a booking is stored for a
\* stored event the counter is positive: cancelBooking never skips its decrement.
C27_SurplusConstant ==
  variant = "mem" =>
    \A i \in 1..Len(events) :
      /\ events[i].currentParticipants - Cardinality(BookingsOfEvent(events[i].id))
           = SeedSurplus(events[i].id)
      /\ events[i].currentParticipants >= Cardinality(BookingsOfEvent(events[i].id))
      /\ BookingsOfEvent(events[i].id) # {} => events[i].currentParticipants > 0

\* C27 witness: booking 1 was cancelled (event 1 at 24 with no booking left),
\* event 2 untouched at 15, and event 3, created later, has one booking and
\* counts 1.
C27_Witness ==
  /\ variant = "mem"
  /\ Len(events) = 3
  /\ events[1].id = 1 /\ events[1].currentParticipants = 24
  /\ BookingsOfEvent(1) = {}
  /\ events[2].id = 2 /\ events[2].currentParticipants = 15
  /\ events[3].id = 3 /\ events[3].currentParticipants = 1
  /\ Cardinality(BookingsOfEvent(3)) = 1

\* C28: array server, every stored booking references a stored event, in every
\* state; a successful DELETE /event/:id removes that event and exactly the
\* bookings whose eventId is the id, and leaves the other events and the
\* bookings of other events as they were, in their order.
C28_BookingsReferenceStoredEvents ==
  /\ [](variant = "mem" =>
          \A j \in 1..Len(bookings) : ~UnknownEvent(bookings[j].eventId))
  /\ [][ res'.op = "cancelEvent" =>
           \A id \in EventIdInputs :
             (~UnknownEvent(id) /\ MemCancelEventOf(id))
             => /\ res'.status = 200
                /\ events' = SelectSeq(events, LAMBDA e : e.id # id)
                /\ Len(events') = Len(events) - 1
                /\ bookings' = SelectSeq(bookings, LAMBDA b : b.eventId # id)
                /\ UNCHANGED <<nextEventId, nextBookingId>>
       ]_vars

\* C28 witness: event 1 was removed with its bookings (the seeded one and one
\* made later); event 2 and its seeded booking are all that is left.
C28_Witness ==
  /\ variant = "mem"
  /\ res.op = "cancelEvent" /\ res.status = 200
  /\ nextBookingId = 4
  /\ events = <<SeedEvents[2]>>
  /\ bookings = <<SeedBookings[2]>>

-----------------------------------------------------------------------------
(* Booking again, and updating a booking *)

C30_UpdateBookingFrame ==
  [][ res'.op = "updateBooking" =>
        \A id \in BookingIdInputs, m \in Emails \cup {""} :
          MemStep(PutBooking(id, m))
          => /\ UNCHANGED <<events, nextEventId, nextBookingId>>
             /\ Len(bookings') = Len(bookings)
             /\ \A j \in 1..Len(bookings) :
                  IF bookings[j].id # id
                  THEN bookings'[j] = bookings[j]
                  ELSE /\ bookings'[j].id = bookings[j].id
                       /\ bookings'[j].eventId = bookings[j].eventId
                       /\ bookings'[j].status = bookings[j].status
                       /\ bookings'[j].email \in {bookings[j].email, m}
    ]_vars

\* C30 witness: booking 1 now has the email a@x.org and is otherwise as
\* seeded, as are booking 2 and both events.
C30_Witness ==
  /\ variant = "mem"
  /\ res = Response("updateBooking", 200, "Booking updated successfully")
  /\ events = SeedEvents
  /\ bookings = <<[SeedBookings[1] EXCEPT !.email = "a@x.org"], SeedBookings[2]>>

-----------------------------------------------------------------------------
(* Identifiers of the array server *)

\* C31: array server, ids are unique and never reused: no two stored events
\* and no two stored bookings share an id, and every stored id is below its
\* counter; the counters never go down, a counter moves only by 1 and only in
\* the step that stores the event or booking carrying the old value as its id,
\* and a request that is rejected (any answer but 200/201) moves no counter.
C31_IdsUniqueNeverReused ==
  /\ [](variant = "mem" =>
          /\ \A i, k \in 1..Len(events) : events[i].id = events[k].id => i = k
          /\ \A j, k \in 1..Len(bookings) : bookings[j].id = bookings[k].id => j = k
          /\ \A i \in 1..Len(events) : events[i].id < nextEventId
          /\ \A j \in 1..Len(bookings) : bookings[j].id < nextBookingId)
  /\ [][ variant = "mem" =>
           /\ nextEventId' >= nextEventId
           /\ nextBookingId' >= nextBookingId
           /\ nextEventId' # nextEventId
              => /\ nextEventId' = nextEventId + 1
                 /\ res'.op = "createEvent" /\ res'.status = 201
                 /\ Len(events') = Len(events) + 1
                 /\ events'[Len(events')].id = nextEventId
           /\ nextBookingId' # nextBookingId
              => /\ nextBookingId' = nextBookingId + 1
                 /\ res'.op = "createBooking" /\ res'.status = 201
                 /\ Len(bookings') = Len(bookings) + 1
                 /\ bookings'[Len(bookings')].id = nextBookingId
           /\ res'.status \notin {200, 201}
              => UNCHANGED <<nextEventId, nextBookingId>>
       ]_vars

\* C31 witness: event 1 and booking 1 are gone, event 3 and booking 3 were
\* created after them with fresh ids, both counters stand at 4, and the last
\* request was rejected with 400.
C31_Witness ==
  /\ variant = "mem"
  /\ res.status = 400
  /\ nextEventId = 4 /\ nextBookingId = 4
  /\ {events[i].id : i \in 1..Len(events)} = {2, 3}
  /\ {bookings[j].id : j \in 1..Len(bookings)} = {2, 3}

====
